---- MODULE Spec2Model ----
(***************************************************************************)
(* Model of library/elasticsearch_s3_repo.py: an Ansible module that       *)
(* registers or removes an S3 snapshot repository in ElasticSearch.        *)
(* One invocation of main() is a "run"; the remote ElasticSearch service   *)
(* is the only state that survives a run.                                  *)
(***************************************************************************)
EXTENDS Integers, Sequences, FiniteSets, TLC

\* ------------------------------------------------------------------ bounds
MaxRuns == 2
MaxRetriesTop == 4

\* ------------------------------------------------------- program constants
DefaultPort == 9200
DefaultMaxRetries == 3

Runs == 1..MaxRuns

\* ------------------------------------------- Python / JSON values and str()
\* A value is a bool, an int or a string; strings are sequences of
\* one-character strings so that str() and .lower() are computed.
VBool(x) == [t |-> "bool", b |-> x, n |-> 0, s |-> <<>>]
VInt(x) == [t |-> "int", b |-> FALSE, n |-> x, s |-> <<>>]
VStr(x) == [t |-> "str", b |-> FALSE, n |-> 0, s |-> x]

DigitChar(d) ==
    CASE d = 0 -> "0" [] d = 1 -> "1" [] d = 2 -> "2" [] d = 3 -> "3"
      [] d = 4 -> "4" [] d = 5 -> "5" [] d = 6 -> "6" [] d = 7 -> "7"
      [] d = 8 -> "8" [] d = 9 -> "9"

RECURSIVE Digits(_)
Digits(n) == IF n < 10 THEN <<DigitChar(n)>>
             ELSE Append(Digits(n \div 10), DigitChar(n % 10))

\* Python str(v)
Str(v) ==
    CASE v.t = "bool" -> (IF v.b THEN <<"T", "r", "u", "e">>
                                 ELSE <<"F", "a", "l", "s", "e">>)
      [] v.t = "int" -> Digits(v.n)
      [] v.t = "str" -> v.s

LowerChar(c) ==
    CASE c = "B" -> "b" [] c = "E" -> "e" [] c = "F" -> "f"
      [] c = "R" -> "r" [] c = "T" -> "t" [] c = "U" -> "u"
      [] OTHER -> c

\* Python s.lower()
Lower(s) == [i \in DOMAIN s |-> LowerChar(s[i])]

\* ------------------------------------------------------------- descriptors
SettingKeys == {"bucket", "endpoint", "region", "access_key", "secret_key",
                "max_retries", "path_style_access", "compress"}
CredentialKeys == {"access_key", "secret_key"}

\* iteration order of the dict rd['settings'] in the comparison loop
KeyOrder == <<"bucket", "endpoint", "region", "access_key", "secret_key",
              "max_retries", "path_style_access", "compress">>

\* values of the four parameters that state=present requires
Buckets == {<<>>, <<"B">>}
Endpoints == {<<>>, <<"e">>}
AccessKeys == {<<>>, <<"k">>, <<"j">>}
SecretKeys == {<<>>, <<"s">>}

Descriptors ==
    [state : {"present", "absent"},
     protocol : {"http"},
     host : {"es"},
     port : {DefaultPort},
     repo_name : {"repo"},
     bucket : Buckets,
     endpoint : Endpoints,
     region : {<<"u">>},
     access_key : AccessKeys,
     secret_key : SecretKeys,
     max_retries : DefaultMaxRetries..MaxRetriesTop,
     path_style_access : {TRUE},
     compress : BOOLEAN]

get_repo_url(d) == <<d.protocol, d.host, d.port, d.repo_name>>

NoSettings == [k \in {} |-> VBool(FALSE)]

\* a payload that leaves the credentials out
create_repo_data_NoCredentials(d) ==
    [type |-> "s3",
     settings |->
        [k \in SettingKeys \ CredentialKeys |->
            CASE k = "bucket" -> VStr(d.bucket)
              [] k = "endpoint" -> VStr(d.endpoint)
              [] k = "region" -> VStr(d.region)
              [] k = "max_retries" -> VInt(d.max_retries)
              [] k = "path_style_access" -> VBool(d.path_style_access)
              [] k = "compress" -> VBool(d.compress)]]

\* create_repo_data, lines 148-165
create_repo_data(d) ==
    [type |-> "s3",
     settings |->
        [k \in SettingKeys |->
            CASE k = "bucket" -> VStr(d.bucket)
              [] k = "endpoint" -> VStr(d.endpoint)
              [] k = "region" -> VStr(d.region)
              [] k = "access_key" -> VStr(d.access_key)
              [] k = "secret_key" -> VStr(d.secret_key)
              [] k = "max_retries" -> VInt(d.max_retries)
              [] k = "path_style_access" -> VBool(d.path_style_access)
              [] k = "compress" -> VBool(d.compress)]]

\* a validation that forgets the last required field
MissingFields_NoSecret(d) ==
    (IF d.bucket = <<>> THEN <<"bucket">> ELSE <<>>)
    \o (IF d.endpoint = <<>> THEN <<"endpoint">> ELSE <<>>)
    \o (IF d.access_key = <<>> THEN <<"access_key">> ELSE <<>>)

\* main, lines 204-214: names of the required fields that are empty
MissingFields(d) ==
    (IF d.bucket = <<>> THEN <<"bucket">> ELSE <<>>)
    \o (IF d.endpoint = <<>> THEN <<"endpoint">> ELSE <<>>)
    \o (IF d.access_key = <<>> THEN <<"access_key">> ELSE <<>>)
    \o (IF d.secret_key = <<>> THEN <<"secret_key">> ELSE <<>>)

\* a validation that does not look at state
ValidationFails_AnyState(d) == MissingFields(d) # <<>>

\* main, lines 204-219: does fail_json end the run before the probe?
ValidationFails(d) == d.state = "present" /\ MissingFields(d) # <<>>

\* a comparison that lower-cases the remote value only
KeyDiffers_NoLower(cs, ms, k) ==
    k \in DOMAIN cs /\ Lower(Str(cs[k])) # Str(ms[k])

\* a comparison that takes a key missing from the remote for a mismatch
KeyDiffers_MissingDiffers(cs, ms, k) ==
    k \notin DOMAIN cs \/ Lower(Str(cs[k])) # Lower(Str(ms[k]))

\* main, line 242: the test applied to one key
KeyDiffers(cs, ms, k) ==
    k \in DOMAIN cs /\ Lower(Str(cs[k])) # Lower(Str(ms[k]))

\* main, lines 241-247: the loop over ms, left at the first mismatch
RECURSIVE CompareFrom(_, _, _)
CompareFrom(cs, ms, i) ==
    IF i > Len(KeyOrder) THEN FALSE
    ELSE IF KeyOrder[i] \in DOMAIN ms /\ KeyDiffers(cs, ms, KeyOrder[i])
         THEN TRUE
         ELSE CompareFrom(cs, ms, i + 1)

\* a reconciliation that registers the repository on every run
ProcessRepo_Always(found, cs, d) == TRUE

\* a reconciliation that never updates a repository it has found
ProcessRepo_NeverUpdate(found, cs, d) == ~found

\* main, lines 225-249: process_repo
ProcessRepo(found, cs, d) ==
    IF found THEN CompareFrom(cs, create_repo_data(d).settings, 1)
    ELSE TRUE

\* ------------------------------------------------------------ HTTP remote
\* The remote holds at most one repository under the probed name.
NoRepo == [exists |-> FALSE, settings |-> NoSettings]

StatusCodes == {200, 201, 300, 404, 500}

\* a response, or no response at all (connection refused, timeout, DNS)
NetDown == [net |-> "down", status |-> 0, json |-> FALSE]
Responses == [net : {"ok"}, status : StatusCodes, json : BOOLEAN]
             \cup {NetDown}

Is2xx(s) == 200 <= s /\ s < 300

\* requests: Response.raise_for_status raises HTTPError for 4xx and 5xx
RaisesForStatus(s) == 400 <= s /\ s < 600

\* what ElasticSearch shows of stored settings: never the credentials,
\* values either as posted or rendered as strings
JsonStr(v) ==
    CASE v.t = "bool" -> (IF v.b THEN <<"t", "r", "u", "e">>
                                 ELSE <<"f", "a", "l", "s", "e">>)
      [] v.t = "int" -> Digits(v.n)
      [] v.t = "str" -> v.s

EchoRaw(st) == [k \in DOMAIN st \ CredentialKeys |-> st[k]]
EchoStr(st) == [k \in DOMAIN st \ CredentialKeys |-> VStr(JsonStr(st[k]))]
Stored(st) == {[exists |-> TRUE, settings |-> EchoRaw(st)],
               [exists |-> TRUE, settings |-> EchoStr(st)]}

\* responses the remote may give to the probe GET
GetResponses(rem) ==
    {r \in Responses :
        /\ r.status = 200 => rem.exists
        /\ r.status = 404 => ~rem.exists}

\* responses to POST and the remote state each leaves behind
PostOutcomes(rem, body) ==
    {<<r, n>> \in Responses \X ({rem} \cup Stored(body.settings)) :
        IF r.net = "ok" /\ Is2xx(r.status)
        THEN n \in Stored(body.settings)
        ELSE n = rem}

\* responses to DELETE and the remote state each leaves behind
DeleteOutcomes(rem) ==
    {<<r, n>> \in Responses \X {rem, NoRepo} :
        /\ (r.net = "ok" /\ Is2xx(r.status)) => (rem.exists /\ n = NoRepo)
        /\ ~(r.net = "ok" /\ Is2xx(r.status)) => n = rem
        /\ r.status = 404 => ~rem.exists}

\* the wire protocol of the snapshot API: GET answers 200 with the JSON
\* definition or 404; POST and DELETE answer 2xx with a JSON acknowledgment
FaithfulGet(rem, r) ==
    r.net = "ok" /\ IF rem.exists THEN r.status = 200 /\ r.json
                                  ELSE r.status = 404
FaithfulAck(r) == r.net = "ok" /\ Is2xx(r.status) /\ r.json

\* ------------------------------------------------------------------ state
VARIABLES
    run,      \* run[r]: the state of invocation r of main()
    remote,   \* the repository definition held by ElasticSearch
    last      \* the last run that ended, as far as it is still relevant

vars == <<run, remote, last>>

NoResult == [kind |-> "none", changed |-> FALSE, msg |-> "none",
             missing |-> <<>>, cause |-> "none", status |-> 0]

\* module.exit_json(changed=..., msg=... / repo_data=...)
exit_json(changed, msg) ==
    [kind |-> "exit_json", changed |-> changed, msg |-> msg,
     missing |-> <<>>, cause |-> "none", status |-> 0]

\* module.fail_json(msg=..., reason=...)
fail_json(msg, missing, cause, status) ==
    [kind |-> "fail_json", changed |-> FALSE, msg |-> msg,
     missing |-> missing, cause |-> cause, status |-> status]

\* an exception nothing catches: the interpreter prints a traceback and
\* the module emits no result of its own
Traceback(cause, status) ==
    [kind |-> "traceback", changed |-> FALSE, msg |-> "none",
     missing |-> <<>>, cause |-> cause, status |-> status]

IdleDesc == CHOOSE d \in Descriptors :
               d.state = "absent" /\ d.bucket = <<>> /\ d.endpoint = <<>>
               /\ d.access_key = <<>> /\ d.secret_key = <<>>
               /\ d.max_retries = DefaultMaxRetries /\ ~d.compress

IdleRun ==
    [pc |-> "idle", desc |-> IdleDesc,
     changed |-> FALSE,          \* main: changed
     found |-> FALSE,            \* check_repo['found']
     error |-> FALSE,            \* check_repo['error']
     data |-> NoSettings,        \* check_repo['data'][repo_name]['settings']
     process_repo |-> FALSE,     \* main: process_repo
     result |-> NoResult,        \* what the module reported
     at |-> "none",              \* the step that ended the run
     calls |-> <<>>,             \* HTTP requests issued, in order
     pstatus |-> 0,              \* status of the probe response
     mstatus |-> 0,              \* status of the create/delete response
     seen |-> NoRepo,            \* remote state when the probe was answered
     faithful |-> TRUE,          \* every response followed the wire protocol
     gone |-> FALSE,             \* the DELETE met a remote without the repository
     interfered |-> FALSE]       \* another writer changed the remote meanwhile

NoLast == [kind |-> "none", desc |-> IdleDesc, changed |-> FALSE]

\* repositories registered by other means than this module
OtherSettings ==
    LET full(b, e, m, c) ==
          [k \in SettingKeys \ CredentialKeys |->
              CASE k = "bucket" -> VStr(b)
                [] k = "endpoint" -> VStr(e)
                [] k = "region" -> VStr(<<"u">>)
                [] k = "max_retries" -> m
                [] k = "path_style_access" -> VStr(<<"t", "r", "u", "e">>)
                [] k = "compress" -> c]
        T == <<"t", "r", "u", "e">>
        F == <<"f", "a", "l", "s", "e">>
    IN  { full(<<"b">>, <<"E">>, VStr(<<"3">>), VStr(T)),
          full(<<"b">>, <<"e">>, VInt(3), VStr(F)),
          full(<<"c">>, <<"e">>, VInt(3), VBool(TRUE)),
          [k \in {"bucket"} |-> VStr(<<"B">>)],
          [k \in {"bucket", "compress", "access_key"} |->
              CASE k = "bucket" -> VStr(<<"b">>)
                [] k = "compress" -> VStr(<<"T", "R", "U", "E">>)
                [] k = "access_key" -> VStr(<<"k">>)] }

OtherRemotes == {NoRepo} \cup {[exists |-> TRUE, settings |-> st] : st \in OtherSettings}

Init ==
    /\ run = [r \in Runs |-> IdleRun]
    /\ remote \in OtherRemotes
    /\ last = NoLast

Request(method, d, body) ==
    [method |-> method, url |-> get_repo_url(d), body |-> body]
NoBody == [type |-> "none", settings |-> NoSettings]

\* a new process takes the lowest free slot
FreeSlot(r) ==
    /\ run[r].pc = "idle"
    /\ \A q \in Runs : q < r => run[q].pc # "idle"

\* invocations follow one another: none starts while another is running
NoneRunning == \A q \in Runs : run[q].pc = "idle"

\* the module is invoked with a descriptor (lines 169-202)
Start(r) ==
    /\ FreeSlot(r)
    /\ NoneRunning
    /\ \E d \in Descriptors :
          run' = [run EXCEPT ![r] = [IdleRun EXCEPT !.pc = "validate",
                                                    !.desc = d,
                                                    !.changed = FALSE]]
    /\ UNCHANGED <<remote, last>>

\* a fail_json that does not end the run
ValidateOutcome_NoAbort(rn) ==
    IF ValidationFails(rn.desc)
    THEN [rn EXCEPT !.pc = "probe", !.at = "validate",
                    !.result = fail_json("required", MissingFields(rn.desc),
                                         "none", 0)]
    ELSE [rn EXCEPT !.pc = "probe"]

\* main, lines 204-219: the required fields of state=present
ValidateOutcome(rn) ==
    IF ValidationFails(rn.desc)
    THEN [rn EXCEPT !.pc = "done", !.at = "validate",
                    !.result = fail_json("required", MissingFields(rn.desc),
                                         "none", 0)]
    ELSE [rn EXCEPT !.pc = "probe"]

Validate(r) ==
    /\ run[r].pc = "validate"
    /\ run' = [run EXCEPT ![r] = ValidateOutcome(run[r])]
    /\ UNCHANGED <<remote, last>>

\* check_repo_exists, lines 113-125, called at line 221 outside any try
ProbeOutcome(rn, rem, resp) ==
    LET sent == [rn EXCEPT !.calls = Append(@, Request("GET", rn.desc, NoBody)),
                           !.pstatus = resp.status,
                           !.seen = rem,
                           !.faithful = @ /\ FaithfulGet(rem, resp)]
        crash(cause) == [sent EXCEPT !.pc = "done", !.at = "probe",
                                     !.result = Traceback(cause, resp.status)]
    IN  IF resp.net = "down" THEN crash("ConnectionError")
        ELSE IF resp.status = 200
             THEN IF resp.json
                  THEN [sent EXCEPT !.pc = "decide", !.found = TRUE,
                                    !.data = rem.settings]
                  ELSE crash("ValueError")
        ELSE IF resp.status \notin {200, 404}
             THEN IF RaisesForStatus(resp.status)
                  THEN crash("HTTPError")
                  ELSE [sent EXCEPT !.pc = "decide", !.error = TRUE]
        ELSE [sent EXCEPT !.pc = "decide"]

Probe(r) ==
    /\ run[r].pc = "probe"
    /\ \E resp \in GetResponses(remote) :
          run' = [run EXCEPT ![r] = ProbeOutcome(run[r], remote, resp)]
    /\ UNCHANGED <<remote, last>>

\* a state=absent branch that deletes whatever the probe found
DecideOutcome_DeleteMissing(rn) ==
    IF rn.desc.state = "present"
    THEN LET pr == ProcessRepo(rn.found, rn.data, rn.desc)
         IN  IF pr
             THEN [rn EXCEPT !.process_repo = TRUE, !.pc = "create"]
             ELSE [rn EXCEPT !.process_repo = FALSE, !.pc = "done",
                             !.at = "decide",
                             !.result = exit_json(rn.changed, "no_update")]
    ELSE [rn EXCEPT !.pc = "delete"]

\* a state=present branch that ignores process_repo
DecideOutcome_AlwaysCreate(rn) ==
    IF rn.desc.state = "present"
    THEN [rn EXCEPT !.process_repo = ProcessRepo(rn.found, rn.data, rn.desc),
                    !.pc = "create"]
    ELSE IF rn.found
         THEN [rn EXCEPT !.pc = "delete"]
         ELSE [rn EXCEPT !.pc = "done", !.at = "decide",
                         !.result = exit_json(rn.changed, "not_found")]

\* main, lines 223-251, 258-262, 265, 273-278: what follows the probe
DecideOutcome(rn) ==
    IF rn.desc.state = "present"
    THEN LET pr == ProcessRepo(rn.found, rn.data, rn.desc)
         IN  IF pr
             THEN [rn EXCEPT !.process_repo = TRUE, !.pc = "create"]
             ELSE [rn EXCEPT !.process_repo = FALSE, !.pc = "done",
                             !.at = "decide",
                             !.result = exit_json(rn.changed, "no_update")]
    ELSE IF rn.found
         THEN [rn EXCEPT !.pc = "delete"]
         ELSE [rn EXCEPT !.pc = "done", !.at = "decide",
                         !.result = exit_json(rn.changed, "not_found")]

Decide(r) ==
    /\ run[r].pc = "decide"
    /\ run' = [run EXCEPT ![r] = DecideOutcome(run[r])]
    /\ UNCHANGED <<remote, last>>

\* a try block that forgets to set changed before it reports
MutateOutcome_NoChanged(rn, req, step, resp, caught) ==
    LET sent == [rn EXCEPT !.calls = Append(@, req),
                           !.mstatus = resp.status,
                           !.faithful = @ /\ FaithfulAck(resp),
                           !.pc = "done", !.at = step]
    IN  IF resp.net = "down"
        THEN [sent EXCEPT !.result = fail_json("Request Failed", <<>>,
                                               "ConnectionError", 0)]
        ELSE IF RaisesForStatus(resp.status)
        THEN [sent EXCEPT !.result = fail_json("Request Failed", <<>>,
                                               "HTTPError", resp.status)]
        ELSE IF resp.json
        THEN [sent EXCEPT !.result = exit_json(rn.changed, "repo_data")]
        ELSE IF caught
        THEN [sent EXCEPT !.result = fail_json("Request Failed", <<>>,
                                               "ValueError", resp.status)]
        ELSE [sent EXCEPT !.result = Traceback("ValueError", resp.status)]

\* the try blocks of main, lines 252-257 and 266-271, around create_repo
\* (lines 128-137) and delete_repo (lines 140-145).  resp.json() on a body
\* that is not JSON raises ValueError, which older requests do not derive
\* from RequestException (caught = FALSE) and newer ones do (caught = TRUE).
MutateOutcome(rn, req, step, resp, caught) ==
    LET sent == [rn EXCEPT !.calls = Append(@, req),
                           !.mstatus = resp.status,
                           !.faithful = @ /\ FaithfulAck(resp),
                           !.pc = "done", !.at = step]
    IN  IF resp.net = "down"
        THEN [sent EXCEPT !.result = fail_json("Request Failed", <<>>,
                                               "ConnectionError", 0)]
        ELSE IF RaisesForStatus(resp.status)
        THEN [sent EXCEPT !.result = fail_json("Request Failed", <<>>,
                                               "HTTPError", resp.status)]
        ELSE IF resp.json
        THEN [sent EXCEPT !.changed = TRUE,
                          !.result = exit_json(TRUE, "repo_data")]
        ELSE IF caught
        THEN [sent EXCEPT !.changed = TRUE,
                          !.result = fail_json("Request Failed", <<>>,
                                               "ValueError", resp.status)]
        ELSE [sent EXCEPT !.changed = TRUE,
                          !.result = Traceback("ValueError", resp.status)]

Create(r) ==
    /\ run[r].pc = "create"
    /\ LET body == create_repo_data(run[r].desc)
       IN  \E o \in PostOutcomes(remote, body), caught \in BOOLEAN :
              /\ run' = [run EXCEPT ![r] =
                    MutateOutcome(run[r], Request("POST", run[r].desc, body),
                                  "create", o[1], caught)]
              /\ remote' = o[2]
    /\ UNCHANGED last

Delete(r) ==
    /\ run[r].pc = "delete"
    /\ \E o \in DeleteOutcomes(remote), caught \in BOOLEAN :
          /\ run' = [run EXCEPT ![r] =
                [MutateOutcome(run[r], Request("DELETE", run[r].desc, NoBody),
                               "delete", o[1], caught)
                    EXCEPT !.gone = ~remote.exists]]
          /\ remote' = o[2]
    /\ UNCHANGED last

\* the process ends; what a following run may rely on is remembered
Remember(rn) ==
    IF rn.result.kind = "exit_json" /\ rn.faithful /\ ~rn.interfered
    THEN [kind |-> rn.desc.state,
          desc |-> IF rn.desc.state = "present" THEN rn.desc ELSE IdleDesc,
          changed |-> rn.result.changed]
    ELSE NoLast

Exit(r) ==
    /\ run[r].pc = "done"
    /\ last' = Remember(run[r])
    /\ run' = [run EXCEPT ![r] = IdleRun]
    /\ UNCHANGED remote

\* somebody else registers, changes or removes the repository
OtherWriter ==
    /\ \E n \in OtherRemotes \ {remote} : remote' = n
    /\ last' = NoLast
    /\ run' = [r \in Runs |->
                 IF run[r].pc = "idle" THEN run[r]
                 ELSE [run[r] EXCEPT !.interfered = TRUE]]

Next ==
    \/ \E r \in Runs : Start(r)
    \/ \E r \in Runs : Validate(r)
    \/ \E r \in Runs : Probe(r)
    \/ \E r \in Runs : Decide(r)
    \/ \E r \in Runs : Create(r)
    \/ \E r \in Runs : Delete(r)
    \/ \E r \in Runs : Exit(r)
    \/ OtherWriter

Spec == Init /\ [][Next]_vars

\* ------------------------------------------- runs that overlap in time
\* state=absent invocations against one repository name
ConcDescriptors == {[IdleDesc EXCEPT !.access_key = a] : a \in AccessKeys}

\* an invocation starts whether or not another one is still running
StartConc(r) ==
    /\ FreeSlot(r)
    /\ \E d \in ConcDescriptors :
          run' = [run EXCEPT ![r] = [IdleRun EXCEPT !.pc = "validate",
                                                    !.desc = d,
                                                    !.changed = FALSE]]
    /\ UNCHANGED <<remote, last>>

\* the steps of the runs interleave; each run stays as it ended
NextConc ==
    \/ \E r \in Runs : StartConc(r)
    \/ \E r \in Runs : Validate(r)
    \/ \E r \in Runs : Probe(r)
    \/ \E r \in Runs : Decide(r)
    \/ \E r \in Runs : Delete(r)

SpecConc == Init /\ [][NextConc]_vars

TypeOK ==
    /\ remote.exists \in BOOLEAN
    /\ \A r \in Runs : run[r].pc \in {"idle", "validate", "probe", "decide",
                                      "create", "delete", "done"}

\* ----------------------------------------------------------------- claims
Methods(calls) == [i \in DOMAIN calls |-> calls[i].method]
Mutating(calls) == {i \in DOMAIN calls : calls[i].method \in {"POST", "DELETE"}}
NonCredentialKeys == SettingKeys \ CredentialKeys
RequiredFields == {"bucket", "endpoint", "access_key", "secret_key"}
Range(f) == {f[i] : i \in DOMAIN f}

\* the remote answered this run as the snapshot API does and nobody else
\* wrote to it while the run lasted
Undisturbed(rn) == rn.faithful /\ ~rn.interfered

\* C1: a state=present run that follows a successful state=present run with
\* the same descriptor, with no other writer in between and a remote that
\* stores what was posted, reports changed=false and issues no mutating call.
C1_Idempotent ==
    \A r \in Runs :
        (/\ run[r].pc = "done"
         /\ last.kind = "present"
         /\ run[r].desc = last.desc
         /\ Undisturbed(run[r]))
        => /\ run[r].result.kind = "exit_json"
           /\ run[r].result.changed = FALSE
           /\ Mutating(run[r].calls) = {}

C1_Witness ==
    \E r \in Runs :
        /\ run[r].pc = "done"
        /\ last.kind = "present" /\ last.changed
        /\ run[r].desc = last.desc
        /\ Undisturbed(run[r])
        /\ run[r].result.kind = "exit_json"
        /\ Methods(run[r].calls) = <<"GET">>

\* what a probe issued right now, and answered faithfully, would report
ProbeNow(d) ==
    ProbeOutcome([IdleRun EXCEPT !.desc = d], remote,
                 [net |-> "ok", json |-> TRUE,
                  status |-> IF remote.exists THEN 200 ELSE 404])

SameText(a, b) == Lower(Str(a)) = Lower(Str(b))

SuccessfulPresent(rn) ==
    /\ rn.pc = "done"
    /\ rn.desc.state = "present"
    /\ rn.result.kind = "exit_json"
    /\ Undisturbed(rn)

\* C2 (as claimed): after every successful state=present run a probe reports
\* found=true with all six non-credential settings matching the descriptor.
C2_RoundTripAll ==
    \A r \in Runs :
        SuccessfulPresent(run[r]) =>
            LET p == ProbeNow(run[r].desc)
                ms == create_repo_data(run[r].desc).settings
            IN  /\ p.found
                /\ \A k \in NonCredentialKeys :
                      k \in DOMAIN p.data /\ SameText(p.data[k], ms[k])

\* C2 (amended): after every successful state=present run a probe reports
\* found=true and every non-credential setting the remote holds matches the
\* descriptor; after a run that reported changed=true it holds all six.
C2_RoundTrip ==
    \A r \in Runs :
        SuccessfulPresent(run[r]) =>
            LET p == ProbeNow(run[r].desc)
                ms == create_repo_data(run[r].desc).settings
            IN  /\ p.found
                /\ \A k \in NonCredentialKeys \cap DOMAIN p.data :
                      SameText(p.data[k], ms[k])
                /\ run[r].result.changed => NonCredentialKeys \subseteq DOMAIN p.data

C2_Witness ==
    \E r \in Runs :
        /\ SuccessfulPresent(run[r])
        /\ ~run[r].result.changed
        /\ ProbeNow(run[r].desc).found
        /\ ~(NonCredentialKeys \subseteq DOMAIN ProbeNow(run[r].desc).data)

C4_CallSequence ==
    \A r \in Runs :
        /\ Methods(run[r].calls) \in {<<>>, <<"GET">>, <<"GET", "POST">>,
                                      <<"GET", "DELETE">>}
        /\ run[r].pc = "done" =>
              (run[r].calls = <<>> <=> run[r].result.msg = "required")
        /\ run[r].result.msg = "required" => run[r].calls = <<>>

C4_Witness ==
    \E r \in Runs :
        /\ run[r].pc = "done"
        /\ Methods(run[r].calls) = <<"GET", "POST">>

\* C5 (as claimed): a probe answered with a status other than 200 and 404
\* ends the run in a failure that carries the status, and no create or
\* delete call follows.
C5_ProbeOtherStatusFails ==
    \A r \in Runs :
        (run[r].calls # <<>> /\ run[r].pstatus \notin {0, 200, 404})
        => /\ run[r].pc = "done"
           /\ run[r].at = "probe"
           /\ run[r].result.kind \in {"fail_json", "traceback"}
           /\ run[r].result.status = run[r].pstatus
           /\ Mutating(run[r].calls) = {}

\* C6 (as claimed): every run that ends in a failure of the probe, the
\* create or the delete call reports it through fail_json with a message
\* and the underlying cause.
C6_FailuresStructured ==
    \A r \in Runs :
        (/\ run[r].pc = "done"
         /\ run[r].at \in {"probe", "create", "delete"}
         /\ run[r].result.kind # "exit_json")
        => /\ run[r].result.kind = "fail_json"
           /\ run[r].result.msg # "none"
           /\ run[r].result.cause # "none"

\* C7 (as claimed): a run whose create or delete call was answered with a
\* status outside 2xx ends in a failure and reports nothing as changed.
C7_ChangedOnly2xx ==
    \A r \in Runs :
        (/\ run[r].pc = "done"
         /\ run[r].at \in {"create", "delete"}
         /\ ~Is2xx(run[r].mstatus))
        => /\ run[r].result.kind # "exit_json"
           /\ ~run[r].result.changed

\* pairs of values that differ in letter case or in type only
T4 == <<"t", "r", "u", "e">>
F5 == <<"f", "a", "l", "s", "e">>
SameButCaseOrType(a, b) ==
    \/ a = b
    \/ \E n \in DefaultMaxRetries..MaxRetriesTop :
          {a, b} = {VInt(n), VStr(<<DigitChar(n)>>)}
    \/ {a, b} \subseteq {VBool(TRUE), VStr(T4), VStr(<<"T", "R", "U", "E">>)}
    \/ {a, b} \subseteq {VBool(FALSE), VStr(F5)}
    \/ {a, b} \subseteq {VStr(<<"b">>), VStr(<<"B">>)}
    \/ {a, b} \subseteq {VStr(<<"e">>), VStr(<<"E">>)}

Compared(rn) ==
    /\ rn.desc.state = "present"
    /\ rn.found
    /\ rn.pc \in {"create", "done"}

\* C8: for a found repository process_repo is true exactly when some key of
\* both the desired and the remote settings has values whose lower-cased
\* strings differ: remote compress "true" against desired false is a
\* mismatch, values that differ in case or type only are none, and a key
\* the remote lacks is none.
C8_NeedsUpdate ==
    \A r \in Runs :
        Compared(run[r]) =>
            LET cs == run[r].data
                ms == create_repo_data(run[r].desc).settings
                both == DOMAIN cs \cap DOMAIN ms
            IN  /\ run[r].process_repo
                      <=> \E k \in both : Lower(Str(cs[k])) # Lower(Str(ms[k]))
                /\ ("compress" \in both /\ cs["compress"] = VStr(T4)
                        /\ ms["compress"] = VBool(FALSE))
                      => run[r].process_repo
                /\ (\A k \in both : SameButCaseOrType(cs[k], ms[k]))
                      => ~run[r].process_repo
                /\ run[r].process_repo <=> run[r].pc = "create" \/ run[r].at = "create"

C8_Witness ==
    \E r \in Runs :
        /\ Compared(run[r])
        /\ ~run[r].process_repo
        /\ "max_retries" \notin DOMAIN run[r].data
        /\ {"bucket", "compress"} \subseteq DOMAIN run[r].data
        /\ run[r].data["bucket"] # VStr(run[r].desc.bucket)
        /\ run[r].data["compress"] # VBool(run[r].desc.compress)

\* the two descriptors differ in their credentials and in nothing else
OnlyCredentialsDiffer(d, e) ==
    /\ d # e
    /\ [d EXCEPT !.access_key = e.access_key, !.secret_key = e.secret_key] = e

\* C9: when the remote settings hold no credentials, a valid state=present
\* run whose descriptor differs from that of the preceding successful run
\* in access_key or secret_key only issues no mutating call and reports
\* changed=false; the decision for a found repository is the same for all
\* credential values.
C9_CredentialChangeUnseen ==
    \A r \in Runs :
        /\ (/\ run[r].pc = "done"
            /\ last.kind = "present"
            /\ OnlyCredentialsDiffer(run[r].desc, last.desc)
            /\ ~ValidationFails(run[r].desc)
            /\ Undisturbed(run[r])
            /\ DOMAIN run[r].seen.settings \cap CredentialKeys = {})
           => /\ run[r].result.kind = "exit_json"
              /\ run[r].result.changed = FALSE
              /\ Mutating(run[r].calls) = {}
        /\ (Compared(run[r]) /\ DOMAIN run[r].data \cap CredentialKeys = {})
           => \A d \in Descriptors :
                 (OnlyCredentialsDiffer(d, run[r].desc))
                 => ProcessRepo(TRUE, run[r].data, d) = run[r].process_repo

C9_Witness ==
    \E r \in Runs :
        /\ run[r].pc = "done"
        /\ last.kind = "present" /\ last.changed
        /\ run[r].desc.access_key # last.desc.access_key
        /\ OnlyCredentialsDiffer(run[r].desc, last.desc)
        /\ Undisturbed(run[r])
        /\ run[r].result.kind = "exit_json"
        /\ Methods(run[r].calls) = <<"GET">>

\* C10: a state=absent run whose probe found the repository issues exactly
\* one DELETE and no POST, and reports changed=true when the DELETE is
\* acknowledged.
C10_DeleteFound ==
    \A r \in Runs :
        (run[r].desc.state = "absent" /\ run[r].found)
        => /\ run[r].pc \in {"decide", "delete", "done"}
           /\ run[r].pc = "done" =>
                 /\ Methods(run[r].calls) = <<"GET", "DELETE">>
                 /\ (Is2xx(run[r].mstatus) /\ run[r].faithful)
                       => /\ run[r].result.kind = "exit_json"
                          /\ run[r].result.changed = TRUE
           /\ run[r].pc # "done" => Methods(run[r].calls) = <<"GET">>

C10_Witness ==
    \E r \in Runs :
        /\ run[r].pc = "done"
        /\ run[r].desc.state = "absent" /\ run[r].found
        /\ Is2xx(run[r].mstatus) /\ run[r].faithful
        /\ run[r].result.changed
        /\ ~remote.exists

\* C11: a state=absent run whose probe is answered 404 reports
\* changed=false with the 'not found' message and issues no mutating call.
C11_AbsentNotFound ==
    \A r \in Runs :
        (run[r].desc.state = "absent" /\ run[r].pstatus = 404)
        => /\ run[r].pc \in {"decide", "done"}
           /\ ~run[r].found
           /\ Methods(run[r].calls) = <<"GET">>
           /\ run[r].pc = "done" =>
                 /\ run[r].result.kind = "exit_json"
                 /\ run[r].result.changed = FALSE
                 /\ run[r].result.msg = "not_found"

C11_Witness ==
    \E r \in Runs :
        /\ run[r].pc = "done"
        /\ run[r].desc.state = "absent" /\ run[r].pstatus = 404
        /\ run[r].result.msg = "not_found"
        /\ Methods(run[r].calls) = <<"GET">>

\* the descriptors that differ from d in the four required fields at most
FieldVariants(d) ==
    {[d EXCEPT !.bucket = b, !.endpoint = e, !.access_key = a,
               !.secret_key = k] :
        b \in Buckets, e \in Endpoints, a \in AccessKeys, k \in SecretKeys}

\* the run record with another descriptor in place of its own
WithDesc(rn, d) == [rn EXCEPT !.desc = d]

\* C12: a state=absent run never fails validation, whatever bucket,
\* endpoint, access_key and secret_key are: it always reaches the probe,
\* and every step gives the same outcome for all values of those fields.
C12_AbsentNeedsNoFields ==
    \A r \in Runs :
        (run[r].pc # "idle" /\ run[r].desc.state = "absent")
        => /\ run[r].result.msg # "required"
           /\ run[r].pc = "done" => run[r].calls # <<>>
           /\ run[r].pc = "validate" =>
                 /\ ValidateOutcome(run[r]).pc = "probe"
                 /\ \A d \in FieldVariants(run[r].desc) :
                       ValidateOutcome(WithDesc(run[r], d))
                          = WithDesc(ValidateOutcome(run[r]), d)
           /\ run[r].pc = "probe" =>
                 \A d \in FieldVariants(run[r].desc), resp \in GetResponses(remote) :
                       ProbeOutcome(WithDesc(run[r], d), remote, resp)
                          = WithDesc(ProbeOutcome(run[r], remote, resp), d)
           /\ run[r].pc = "decide" =>
                 \A d \in FieldVariants(run[r].desc) :
                       DecideOutcome(WithDesc(run[r], d))
                          = WithDesc(DecideOutcome(run[r]), d)

C12_Witness ==
    \E r \in Runs :
        /\ run[r].pc = "done"
        /\ run[r].desc.state = "absent"
        /\ \A f \in RequiredFields : run[r].desc[f] = <<>>
        /\ run[r].result.kind = "exit_json"
        /\ run[r].result.changed
        /\ Methods(run[r].calls) = <<"GET", "DELETE">>

\* a valid state=present run that has got past the probe and the decision
DecidedPresent(rn) ==
    /\ rn.desc.state = "present"
    /\ ~ValidationFails(rn.desc)
    /\ rn.pc \in {"create", "done"}
    /\ rn.at # "probe"

\* C13: a valid state=present run issues the create call exactly when the
\* probe reported not found or some common key differs; the body is type s3
\* with all eight settings as the descriptor gives them, credentials
\* included, and it goes to the URL that was probed.
C13_CreateCall ==
    \A r \in Runs :
        DecidedPresent(run[r]) =>
            LET d == run[r].desc
                cs == run[r].data
                calls == run[r].calls
                ms == create_repo_data(d).settings
                differs == \E k \in DOMAIN ms \cap DOMAIN cs :
                              ~SameText(cs[k], ms[k])
                issued == run[r].pc = "create" \/ "POST" \in Range(Methods(calls))
            IN  /\ issued <=> (~run[r].found \/ differs)
                /\ "POST" \in Range(Methods(calls)) =>
                      /\ Len(calls) = 2
                      /\ calls[2].method = "POST"
                      /\ calls[2].url = calls[1].url
                      /\ calls[2].body.type = "s3"
                      /\ DOMAIN calls[2].body.settings = SettingKeys
                      /\ calls[2].body.settings["bucket"] = VStr(d.bucket)
                      /\ calls[2].body.settings["endpoint"] = VStr(d.endpoint)
                      /\ calls[2].body.settings["region"] = VStr(d.region)
                      /\ calls[2].body.settings["access_key"] = VStr(d.access_key)
                      /\ calls[2].body.settings["secret_key"] = VStr(d.secret_key)
                      /\ calls[2].body.settings["max_retries"] = VInt(d.max_retries)
                      /\ calls[2].body.settings["path_style_access"]
                            = VBool(d.path_style_access)
                      /\ calls[2].body.settings["compress"] = VBool(d.compress)

C13_Witness ==
    \E r \in Runs :
        /\ DecidedPresent(run[r])
        /\ run[r].found
        /\ Methods(run[r].calls) = <<"GET", "POST">>
        /\ run[r].calls[2].body.settings["access_key"] = VStr(<<"j">>)
        /\ run[r].calls[2].url = run[r].calls[1].url

\* C14: a run that reports success with changed=false has issued no
\* mutating call and, nobody else writing, the remote is as the probe saw
\* it; a state=present run that found the repository with no common key
\* differing ends so, with the 'no update needed' message.
C14_UnchangedLeavesRemote ==
    \A r \in Runs :
        /\ (/\ run[r].pc = "done"
            /\ run[r].result.kind = "exit_json"
            /\ ~run[r].result.changed)
           => /\ Mutating(run[r].calls) = {}
              /\ ~run[r].interfered => remote = run[r].seen
        /\ (/\ DecidedPresent(run[r])
            /\ run[r].found
            /\ \A k \in DOMAIN create_repo_data(run[r].desc).settings
                         \cap DOMAIN run[r].data :
                  SameText(run[r].data[k],
                           create_repo_data(run[r].desc).settings[k]))
           => /\ run[r].pc = "done"
              /\ run[r].result = exit_json(FALSE, "no_update")
              /\ Methods(run[r].calls) = <<"GET">>
              /\ ~run[r].interfered => remote = run[r].seen

C14_Witness ==
    \E r \in Runs :
        /\ DecidedPresent(run[r])
        /\ run[r].found
        /\ run[r].pc = "done"
        /\ run[r].result = exit_json(FALSE, "no_update")
        /\ ~run[r].interfered
        /\ remote = run[r].seen /\ remote.exists

\* C15 (as claimed): a run that has ended has emitted exactly one result,
\* through exit_json or through fail_json, and a run that has emitted a
\* result issues no further HTTP call.
C15_OneResult ==
    \A r \in Runs :
        /\ run[r].pc = "done" => run[r].result.kind \in {"exit_json", "fail_json"}
        /\ run[r].result.kind # "none" => run[r].pc = "done"
        /\ run[r].pc \notin {"idle", "done"} => run[r].result = NoResult

\* C16 (as claimed): after a state=absent run that reported success, nobody
\* else writing, the remote holds no repository; a state=absent run that
\* follows such a run reports changed=false and issues no mutating call.
C16_DeleteConverges ==
    \A r \in Runs :
        /\ (/\ run[r].pc = "done"
            /\ run[r].desc.state = "absent"
            /\ run[r].result.kind = "exit_json"
            /\ ~run[r].interfered)
           => ~remote.exists
        /\ (/\ run[r].pc = "done"
            /\ run[r].desc.state = "absent"
            /\ last.kind = "absent"
            /\ ~run[r].interfered)
           => /\ ~(run[r].result.kind = "exit_json" /\ run[r].result.changed)
              /\ Mutating(run[r].calls) = {}

\* the runs that reported changed=true, and the deletions the remote made
ChangedRuns ==
    {r \in Runs : run[r].result.kind = "exit_json" /\ run[r].result.changed}
PerformedDeletes ==
    {r \in Runs : run[r].at = "delete" /\ Is2xx(run[r].mstatus)}

\* C17 (as claimed): when state=absent runs against one repository
\* interleave and every DELETE of a missing repository is answered 404, at
\* most one run reports changed=true, and no more runs report changed=true
\* than the remote performed deletions.
C17_ChangedWithinDeletes ==
    (\A r \in Runs : run[r].gone => run[r].mstatus = 404)
    => /\ Cardinality(ChangedRuns) <= 1
       /\ Cardinality(ChangedRuns) <= Cardinality(PerformedDeletes)

====
